---- MODULE Spec2Model ----
(***************************************************************************)
(* Model of openquake/srtk/soilprofile/proxies.py: the depth-weighted      *)
(* average of a soil property over a layered profile and the site kappa    *)
(* derived from it.                                                        *)
(*                                                                         *)
(* Numbers: thicknesses and depths are integers (metres); every value the  *)
(* code computes with "/" is an exact rational [n, d] in lowest terms.     *)
(* A division by zero, which numpy turns into inf or nan, is the single    *)
(* absorbing value NonFinite (d = 0).  Rounding of IEEE doubles is not     *)
(* modelled: the arithmetic is that of the reals.                          *)
(***************************************************************************)
EXTENDS Integers, Sequences, FiniteSets, TLC

\* ------------------------------------------------------------------ bounds
MaxLayers == 3
MaxThick == 2
MaxDepth == 3

\* per-layer values of a property array handed to depth_weighted_average
Props == {1, 2}
\* per-layer (shear-wave velocity, quality factor) pairs of a kappa profile
Materials == {<<2, 1>>, <<1, 3>>}

\* ------------------------------------------------- exact rational numbers
Abs(x) == IF x < 0 THEN -x ELSE x

RECURSIVE Gcd(_, _)
Gcd(a, b) == IF b = 0 THEN a ELSE Gcd(b, a % b)

NonFinite == [n |-> 0, d |-> 0]

IsFinite(x) == x.d # 0

\* the fraction n/d in lowest terms with a positive denominator
Rat(n, d) ==
    IF d = 0 THEN NonFinite
    ELSE LET g == Gcd(Abs(n), Abs(d))
             s == IF d < 0 THEN -1 ELSE 1
         IN  [n |-> s * (n \div g), d |-> s * (d \div g)]

R(k) == [n |-> k, d |-> 1]

RAdd(x, y) ==
    IF ~IsFinite(x) \/ ~IsFinite(y) THEN NonFinite
    ELSE Rat(x.n * y.d + y.n * x.d, x.d * y.d)

RMul(x, y) ==
    IF ~IsFinite(x) \/ ~IsFinite(y) THEN NonFinite
    ELSE Rat(x.n * y.n, x.d * y.d)

RDiv(x, y) ==
    IF ~IsFinite(x) \/ ~IsFinite(y) \/ y.n = 0 THEN NonFinite
    ELSE Rat(x.n * y.d, x.d * y.n)

\* ------------------------------------------------------ sequence helpers
\* s[:-1]
ButLast(s) == IF Len(s) = 0 THEN << >> ELSE SubSeq(s, 1, Len(s) - 1)

\* numpy.sum over a sequence of integers
RECURSIVE Sum(_)
Sum(s) == IF Len(s) = 0 THEN 0 ELSE s[1] + Sum(Tail(s))

Min(a, b) == IF a < b THEN a ELSE b
Max(a, b) == IF a > b THEN a ELSE b

\* zip(a, b): pairs up to the shorter of the two
Zip(a, b) == [i \in 1..Min(Len(a), Len(b)) |-> <<a[i], b[i]>>]

\* -------------------------------------------------- depth_weighted_average
\* the comparison with <= in place of <
FullyAbove_le(tk, total_depth, depth) == tk + total_depth <= depth

\* "if (tk + total_depth) < depth": the layer lies wholly above the cutoff
FullyAbove(tk, total_depth, depth) == tk + total_depth < depth

\* "mean_value += tk*sp/depth"
FullTerm(tk, sp, depth) == RDiv(RMul(R(tk), sp), R(depth))

\* a cut layer counted with its whole thickness
PartialTerm_whole(tk, total_depth, sp, depth) == RDiv(RMul(R(tk), sp), R(depth))

\* "mean_value += (depth - total_depth)*sp/depth", then break
PartialTerm(tk, total_depth, sp, depth) ==
    RDiv(RMul(R(depth - total_depth), sp), R(depth))

\* the test against the sum of all thicknesses, the half-space's included
HalfSpaceReached_all(total_depth, thickness) == total_depth = Sum(thickness)

\* the half-space term added without any test
HalfSpaceReached_always(total_depth, thickness) == TRUE

\* "if total_depth == _np.sum(thickness[:-1])"
HalfSpaceReached(total_depth, thickness) == total_depth = Sum(ButLast(thickness))

\* a half-space term that is not divided by the depth
HalfSpaceTerm_nodiv(total_depth, sp, depth) == RMul(R(depth - total_depth), sp)

\* a half-space term that forgets the depth already covered
HalfSpaceTerm_whole(total_depth, sp, depth) ==
    RDiv(RMul(R(depth), sp), R(depth))

\* "mean_value += (depth - total_depth)*soil_prop[-1]/depth"
HalfSpaceTerm(total_depth, sp, depth) ==
    RDiv(RMul(R(depth - total_depth), sp), R(depth))

\* the for loop over zip(thickness[:-1], soil_prop[:-1]), from pair i on;
\* broke_at is the (1-based) layer whose else branch ran, 0 if none did
RECURSIVE Loop(_, _, _, _, _)
Loop(pairs, depth, i, mean_value, total_depth) ==
    IF i > Len(pairs)
    THEN [mean_value |-> mean_value, total_depth |-> total_depth,
          broke |-> FALSE, broke_at |-> 0]
    ELSE LET tk == pairs[i][1]
             sp == pairs[i][2]
         IN  IF FullyAbove(tk, total_depth, depth)
             THEN Loop(pairs, depth, i + 1,
                       RAdd(mean_value, FullTerm(tk, sp, depth)),
                       total_depth + tk)
             ELSE [mean_value |-> RAdd(mean_value,
                                       PartialTerm(tk, total_depth, sp, depth)),
                   total_depth |-> total_depth,
                   broke |-> TRUE, broke_at |-> i]

\* One call.  fault = "IndexError" when soil_prop[-1] is read from an empty
\* soil_prop (nothing is returned then); otherwise mean_value is the value
\* returned.  depth, total_depth, broke, broke_at and hs_added record the
\* cutoff and the path taken.
depth_weighted_average(thickness, soil_prop, depth) ==
    LET l  == Loop(Zip(ButLast(thickness), ButLast(soil_prop)), depth, 1, R(0), 0)
        hs == HalfSpaceReached(l.total_depth, thickness)
    IN  IF hs /\ Len(soil_prop) = 0
        THEN [fault |-> "IndexError", mean_value |-> l.mean_value,
              depth |-> depth, total_depth |-> l.total_depth,
              broke |-> l.broke, broke_at |-> l.broke_at, hs_added |-> FALSE]
        ELSE [fault |-> "none",
              mean_value |-> IF hs
                             THEN RAdd(l.mean_value,
                                       HalfSpaceTerm(l.total_depth,
                                                     soil_prop[Len(soil_prop)],
                                                     depth))
                             ELSE l.mean_value,
              depth |-> depth, total_depth |-> l.total_depth,
              broke |-> l.broke, broke_at |-> l.broke_at, hs_added |-> hs]

\* ------------------------------------------------------ compute_site_kappa
\* Values of the depth argument: a number, a list, or no argument at all.
Num(k) == [kind |-> "num", items |-> <<k>>]
EmptyList == [kind |-> "list", items |-> << >>]
Omitted == [kind |-> "omitted", items |-> << >>]

\* "not depth": a zero or an empty list
Falsy(obj) ==
    \/ obj.kind = "list" /\ obj.items = << >>
    \/ obj.kind = "num" /\ obj.items[1] = 0

\* a truthy depth as the scalar it is used as
DepthValue(obj) == obj.items[1]

\* a default depth that stops at the last interface
DefaultDepth_finite(thickness) == Sum(ButLast(thickness))

\* "depth = _np.sum(thickness)"
DefaultDepth(thickness) == Sum(thickness)

\* a layer kappa that leaves the quality factor out
LayerKappa_noquality(depth, v, q) == RDiv(R(depth), R(v))

\* one element of "depth/(s_velocity*s_quality)"
LayerKappa(depth, v, q) == RDiv(R(depth), R(v * q))

\* the object the parameter depth is bound to on entry
BoundDepth(arg, defaults) == IF arg.kind = "omitted" THEN defaults ELSE arg

\* a default list that the call fills in place when no depth is given
DefaultsAfterCall_inplace(arg, defaults, thickness) ==
    IF arg.kind = "omitted" /\ defaults.items = << >>
    THEN [kind |-> "list", items |-> <<Sum(thickness)>>]
    ELSE defaults

\* the parameter's default object as the call leaves it: line 92 rebinds the
\* local name and never writes to the list
DefaultsAfterCall(arg, defaults, thickness) == defaults

\* One call with depth bound to depth_obj.
compute_site_kappa(thickness, s_velocity, s_quality, depth_obj) ==
    LET depth == IF Falsy(depth_obj) THEN DefaultDepth(thickness)
                 ELSE DepthValue(depth_obj)
        layer_kappa == [i \in 1..Len(s_velocity) |->
                            LayerKappa(depth, s_velocity[i], s_quality[i])]
        avg == depth_weighted_average(thickness, layer_kappa, depth)
    IN  [depth |-> depth, layer_kappa |-> layer_kappa, avg |-> avg,
         kappa0 |-> avg.mean_value]

\* ------------------------------------------------------------------ state
\* thickness, soil_prop, s_velocity, s_quality, depth: the argument objects
\*     the caller holds (depth as Num, EmptyList or Omitted)
\* kappa_defaults: the default object of compute_site_kappa's depth parameter
\* call: the function the caller invokes with them ("dwa", "kappa", "none")
\* pc: "idle" before any profile exists, "ready" once the arguments are built,
\*     "returned" after a call
\* out: what the last call computed; repeat: the last call was made again
\*     with the argument objects of the call before it
VARIABLES thickness, soil_prop, s_velocity, s_quality, depth,
          kappa_defaults, call, pc, out, repeat

arrays == <<thickness, soil_prop, s_velocity, s_quality, depth>>
vars == <<thickness, soil_prop, s_velocity, s_quality, depth,
          kappa_defaults, call, pc, out, repeat>>

NoAvg == [fault |-> "none", mean_value |-> R(0), depth |-> 0, total_depth |-> 0,
          broke |-> FALSE, broke_at |-> 0, hs_added |-> FALSE]
NoOut == [depth |-> 0, layer_kappa |-> << >>, avg |-> NoAvg, value |-> R(0)]

\* what a call of depth_weighted_average leaves in out
AverageOut(a) ==
    [depth |-> a.depth, layer_kappa |-> << >>, avg |-> a, value |-> a.mean_value]

\* what a call of compute_site_kappa leaves in out
KappaOut(k) ==
    [depth |-> k.depth, layer_kappa |-> k.layer_kappa, avg |-> k.avg,
     value |-> k.kappa0]

Init ==
    /\ thickness = << >>
    /\ soil_prop = << >>
    /\ s_velocity = << >>
    /\ s_quality = << >>
    /\ depth = Omitted
    /\ kappa_defaults = EmptyList
    /\ call = "none"
    /\ pc = "idle"
    /\ out = NoOut
    /\ repeat = FALSE

\* The caller's arguments changed: nothing has been computed from them yet.
Rebuilt ==
    /\ pc' = "ready"
    /\ out' = NoOut
    /\ repeat' = FALSE
    /\ UNCHANGED kappa_defaults

\* The caller adds a layer at the bottom of a profile with one property.
\* Thicknesses are metres and never negative; 0 is the half-space's.
AddLayer ==
    \E tk \in 0..MaxThick, sp \in Props :
        /\ call \in {"none", "dwa"}
        /\ Len(thickness) < MaxLayers
        /\ thickness' = Append(thickness, tk)
        /\ soil_prop' = Append(soil_prop, R(sp))
        /\ call' = "dwa"
        /\ UNCHANGED <<s_velocity, s_quality, depth>>
        /\ Rebuilt

\* The caller adds a layer at the bottom of a velocity / quality profile.
AddKappaLayer ==
    \E tk \in 0..MaxThick, m \in Materials :
        /\ call \in {"none", "kappa"}
        /\ Len(thickness) < MaxLayers
        /\ thickness' = Append(thickness, tk)
        /\ s_velocity' = Append(s_velocity, m[1])
        /\ s_quality' = Append(s_quality, m[2])
        /\ call' = "kappa"
        /\ UNCHANGED <<soil_prop, depth>>
        /\ Rebuilt

\* The caller chooses the averaging depth.
SetDepth ==
    \E d \in 0..MaxDepth :
        /\ call # "none"
        /\ depth' = Num(d)
        /\ UNCHANGED <<thickness, soil_prop, s_velocity, s_quality, call>>
        /\ Rebuilt

\* The caller leaves the depth of compute_site_kappa out, or passes [].
UnsetDepth ==
    \E d \in {Omitted, EmptyList} :
        /\ call = "kappa"
        /\ depth' = d
        /\ UNCHANGED <<thickness, soil_prop, s_velocity, s_quality, call>>
        /\ Rebuilt

\* The caller drops the profile.
Discard ==
    /\ call # "none"
    /\ thickness' = << >>
    /\ soil_prop' = << >>
    /\ s_velocity' = << >>
    /\ s_quality' = << >>
    /\ depth' = Omitted
    /\ call' = "none"
    /\ pc' = "idle"
    /\ out' = NoOut
    /\ repeat' = FALSE
    /\ UNCHANGED kappa_defaults

\* The caller lengthens thickness alone, or soil_prop alone.
AddThickness ==
    \E tk \in 0..MaxThick :
        /\ call \in {"none", "dwa"}
        /\ Len(thickness) < MaxLayers
        /\ thickness' = Append(thickness, tk)
        /\ call' = "dwa"
        /\ UNCHANGED <<soil_prop, s_velocity, s_quality, depth>>
        /\ Rebuilt

AddProp ==
    \E sp \in Props :
        /\ call \in {"none", "dwa"}
        /\ Len(soil_prop) < MaxLayers
        /\ soil_prop' = Append(soil_prop, R(sp))
        /\ call' = "dwa"
        /\ UNCHANGED <<thickness, s_velocity, s_quality, depth>>
        /\ Rebuilt

\* depth_weighted_average(thickness, soil_prop, depth)
CallAverage ==
    /\ call = "dwa"
    /\ depth.kind = "num"
    /\ pc \in {"ready", "returned"}
    /\ out' = AverageOut(depth_weighted_average(thickness, soil_prop,
                                                DepthValue(depth)))
    /\ pc' = "returned"
    /\ repeat' = (pc = "returned")
    /\ UNCHANGED <<arrays, kappa_defaults, call>>

\* compute_site_kappa(thickness, s_velocity, s_quality[, depth])
CallKappa ==
    /\ call = "kappa"
    /\ pc \in {"ready", "returned"}
    /\ out' = KappaOut(compute_site_kappa(thickness, s_velocity, s_quality,
                                          BoundDepth(depth, kappa_defaults)))
    /\ kappa_defaults' = DefaultsAfterCall(depth, kappa_defaults, thickness)
    /\ pc' = "returned"
    /\ repeat' = (pc = "returned")
    /\ UNCHANGED <<arrays, call>>

Next ==
    \/ AddLayer
    \/ AddKappaLayer
    \/ SetDepth
    \/ UnsetDepth
    \/ Discard
    \/ CallAverage
    \/ CallKappa

Spec == Init /\ [][Next]_vars

\* The profile of the worked example: layers of thickness 10 or 0 with
\* (velocity, quality) of (200, 20) or (300, 30).
ExampleThicknesses == {0, 10}
ExampleMaterials == {<<200, 20>>, <<300, 30>>}

AddExampleLayer ==
    \E tk \in ExampleThicknesses, m \in ExampleMaterials :
        /\ call \in {"none", "kappa"}
        /\ Len(thickness) < MaxLayers
        /\ thickness' = Append(thickness, tk)
        /\ s_velocity' = Append(s_velocity, m[1])
        /\ s_quality' = Append(s_quality, m[2])
        /\ call' = "kappa"
        /\ UNCHANGED <<soil_prop, depth>>
        /\ Rebuilt

NextExample ==
    \/ AddExampleLayer
    \/ SetDepth
    \/ UnsetDepth
    \/ Discard
    \/ CallKappa

SpecExample == Init /\ [][NextExample]_vars

NextRagged ==
    \/ AddThickness
    \/ AddProp
    \/ SetDepth
    \/ Discard
    \/ CallAverage

SpecRagged == Init /\ [][NextRagged]_vars

\* ================================================================ claims
\* the property array the last call of depth_weighted_average averaged
Averaged == IF call = "kappa" THEN out.layer_kappa ELSE soil_prop

\* a call has returned a value for a well-formed profile and a positive depth
ReturnedWellFormed ==
    /\ pc = "returned"
    /\ out.avg.fault = "none"
    /\ Len(thickness) = Len(Averaged)
    /\ Len(thickness) >= 1
    /\ out.avg.depth > 0

\* length of the part of [lo, hi] that lies in [0, d]
Overlap(lo, hi, d) == Max(0, Min(hi, d) - Max(lo, 0))

\* depth of the top of layer i
Top(th, i) == Sum(SubSeq(th, 1, i - 1))

\* sum over the layers 1..k of overlap * property
RECURSIVE OverlapSum(_, _, _, _)
OverlapSum(th, sp, d, k) ==
    IF k = 0 THEN R(0)
    ELSE RAdd(OverlapSum(th, sp, d, k - 1),
              RMul(R(Overlap(Top(th, k), Top(th, k) + th[k], d)), sp[k]))

RECURSIVE LastPositive(_, _)
LastPositive(th, k) ==
    IF k = 0 THEN 0
    ELSE IF th[k] > 0 THEN k ELSE LastPositive(th, k - 1)

\* the cutoff lies exactly on the top of the half-space
CutoffOnLastInterface ==
    /\ ReturnedWellFormed
    /\ out.avg.depth = Sum(ButLast(thickness))

ExampleReturned ==
    /\ pc = "returned"
    /\ call = "kappa"
    /\ thickness = <<10, 0>>
    /\ s_velocity = <<200, 300>>
    /\ s_quality = <<20, 30>>
    /\ depth = Omitted

\* C4 as stated: the example uses depth 10 and returns the half-space term
\* only, 10/(300*30) = layer_kappa[-1].
C4_AsStated ==
    ExampleReturned =>
        /\ out.depth = 10
        /\ out.value = Rat(10, 300 * 30)
        /\ out.value = out.layer_kappa[2]

\* C4 amended: the example uses depth 10 and returns the finite layer's
\* kappa, 10/(200*20) = layer_kappa[0], through the break branch; the
\* half-space term is not added and 10/(300*30) does not contribute.
C4_FiniteLayerOnly ==
    ExampleReturned =>
        /\ out.depth = 10
        /\ out.layer_kappa = <<Rat(10, 200 * 20), Rat(10, 300 * 30)>>
        /\ out.value = Rat(10, 200 * 20)
        /\ out.avg.broke_at = 1
        /\ ~out.avg.hs_added

C4_Witness == ExampleReturned /\ out.value = Rat(1, 400)

\* C5: a depth that is omitted, 0 or [] is replaced by the sum of all
\* thicknesses, the last one included, so the call computes what a call with
\* depth = sum(thickness) computes; any other depth is used as given; the one
\* depth is both the numerator of every layer_kappa[i] and the cutoff.
C5_DefaultDepthIsWholeSum ==
    (pc = "returned" /\ call = "kappa") =>
        /\ depth \in {Omitted, EmptyList, Num(0)} =>
              /\ out.depth = Sum(thickness)
              /\ out = KappaOut(compute_site_kappa(thickness, s_velocity,
                                                   s_quality, Num(Sum(thickness))))
        /\ depth \notin {Omitted, EmptyList, Num(0)} => out.depth = depth.items[1]
        /\ Len(out.layer_kappa) = Len(thickness)
        /\ \A i \in 1..Len(thickness) :
              out.layer_kappa[i] = RDiv(R(out.depth), R(s_velocity[i] * s_quality[i]))
        /\ out.avg.depth = out.depth

\* no depth given and a last thickness that is not zero
C5_Witness ==
    /\ pc = "returned"
    /\ call = "kappa"
    /\ depth = Omitted
    /\ Len(thickness) = 3
    /\ thickness[3] > 0
    /\ Sum(ButLast(thickness)) > 0

RaggedCallOver ==
    /\ pc = "returned"
    /\ call = "dwa"
    /\ Len(thickness) # Len(soil_prop)

\* C8 as stated: every call with arrays of different lengths ends in an
\* index fault and returns no value (here for the positive depths alone, where
\* a returned value is a finite number).
C8_AsStated ==
    (RaggedCallOver /\ out.avg.depth > 0) => out.avg.fault = "IndexError"

\* C8 amended: nothing is validated; zip pairs the finite layers up to the
\* shorter array, and the call ends in an index fault exactly when soil_prop
\* is empty and sum(thickness[:-1]) is 0; every other call with arrays of
\* different lengths returns a value.
C8_FaultOnlyOnEmptyProps ==
    RaggedCallOver =>
        /\ out.avg.fault = "IndexError" <=>
              (Len(soil_prop) = 0 /\ Sum(ButLast(thickness)) = 0)
        /\ out.avg.broke_at <= Min(Len(ButLast(thickness)), Len(ButLast(soil_prop)))

\* a longer thickness array, and a value returned
C8_Witness ==
    /\ RaggedCallOver
    /\ Len(thickness) = 3
    /\ Len(soil_prop) = 2
    /\ out.avg.fault = "none"
    /\ out.avg.depth > 0

\* what the call just made computes when nothing but its arguments is read
FreshOut ==
    IF call = "dwa"
    THEN AverageOut(depth_weighted_average(thickness, soil_prop, DepthValue(depth)))
    ELSE KappaOut(compute_site_kappa(thickness, s_velocity, s_quality,
                                     BoundDepth(depth, EmptyList)))

\* C9: no call changes its argument arrays or the default object of
\* compute_site_kappa's depth, which stays the empty list; what a call has
\* computed is a function of its arguments alone, and a call made again with
\* the same arguments computes the same.
C9_CallsArePure ==
    /\ [](kappa_defaults = EmptyList)
    /\ [](pc = "returned" => out = FreshOut)
    /\ [][pc' = "returned" =>
            /\ arrays' = arrays
            /\ kappa_defaults' = kappa_defaults
            /\ (pc = "returned" => out' = out)]_vars

\* compute_site_kappa called a second time without a depth
C9_Witness ==
    /\ pc = "returned"
    /\ repeat
    /\ call = "kappa"
    /\ depth = Omitted
    /\ Len(thickness) >= 2
    /\ Sum(thickness) > 0

\* sum over the layers 1..k of thickness / (velocity * quality)
RECURSIVE TravelTimeKappa(_, _, _, _)
TravelTimeKappa(th, v, q, k) ==
    IF k = 0 THEN R(0)
    ELSE RAdd(TravelTimeKappa(th, v, q, k - 1), RDiv(R(th[k]), R(v[k] * q[k])))

\* compute_site_kappa returned for a profile of n >= 2 layers that ends in a
\* half-space of thickness 0 below finite layers of positive sum, no depth given
HalfSpaceProfileReturned ==
    /\ pc = "returned"
    /\ call = "kappa"
    /\ depth = Omitted
    /\ Len(thickness) >= 2
    /\ thickness[Len(thickness)] = 0
    /\ Sum(ButLast(thickness)) > 0

\* the result is the finite layers' sum and does not read the half-space
KappaOfFiniteLayers ==
    LET n == Len(thickness)
    IN  /\ out.value = TravelTimeKappa(thickness, s_velocity, s_quality, n - 1)
        /\ out.avg.broke
        /\ ~out.avg.hs_added
        /\ \A m \in Materials :
              compute_site_kappa(thickness,
                                 [s_velocity EXCEPT ![n] = m[1]],
                                 [s_quality EXCEPT ![n] = m[2]],
                                 EmptyList).kappa0 = out.value

====
